---------------------------- MODULE Spec2Model ----------------------------
(***************************************************************************)
(* Layout algebra of cute-layout-viz (src/src/utils/layoutTest.ts, the     *)
(* layoutUtils part of the file).                                          *)
(*                                                                         *)
(* LayoutValue = number | LayoutValue[] is modelled as a tagged record:    *)
(*   Leaf(n)  the number n                                                 *)
(*   Node(ks) the array whose elements are the LayoutValues ks[1..Len(ks)] *)
(* A number[] of the source is a TLA+ sequence of integers.  A function    *)
(* that can throw returns a record with an ok field; ok = FALSE is the     *)
(* thrown Error and carries no value (NoValue).                            *)
(***************************************************************************)
EXTENDS Integers, Sequences, FiniteSets, TLC

(***************************************************************************)
(* Bounds of the model.                                                    *)
(***************************************************************************)
MaxShapeLeaf == 3      \* shape leaves are drawn from 1..MaxShapeLeaf
MaxStrideLeaf == 2     \* strides of the first layout are drawn from 0..MaxStrideLeaf
MaxInnerStride == 4    \* strides of the inner layout of a composition: 0..MaxInnerStride
MaxDivisor == 8        \* divisors passed to divideLayout directly: 0..MaxDivisor
MaxModulus == 8        \* moduli passed to modShape directly: -1..MaxModulus
MaxCoordLeaf == 2      \* coordinate leaves passed to calculateOffset: -1..MaxCoordLeaf
NumCallers == 2        \* concurrent callers of initPyodide / of a bridge function
MaxCalls == 2          \* calls each caller makes
MaxLoads == 2          \* loadPyodide calls the model follows
MaxRuns == 3           \* calculateLayouts runs of the Composition page

(***************************************************************************)
(* LayoutValue                                                             *)
(***************************************************************************)
Leaf(n) == [tag |-> "leaf", v |-> n, kids |-> <<>>]
Node(ks) == [tag |-> "node", v |-> 0, kids |-> ks]
NoValue == [tag |-> "none", v |-> 0, kids |-> <<>>]
IsLeaf(t) == t.tag = "leaf"
IsNode(t) == t.tag = "node"

\* number[] -> LayoutValue (an array of numbers seen as a LayoutValue)
FlatValue(flat) == Node([i \in 1..Len(flat) |-> Leaf(flat[i])])

RECURSIVE ConcatAll(_)
ConcatAll(seqs) ==
  IF Len(seqs) = 0 THEN <<>> ELSE Head(seqs) \o ConcatAll(Tail(seqs))

RECURSIVE flattenNested(_)
flattenNested(nested) ==
  IF IsLeaf(nested) THEN <<nested.v>>
  ELSE ConcatAll([i \in 1..Len(nested.kids) |->
                    IF IsNode(nested.kids[i]) THEN flattenNested(nested.kids[i])
                    ELSE <<nested.kids[i].v>>])

flattenLayout(shape, stride) ==
  [shape |-> flattenNested(shape), stride |-> flattenNested(stride)]

RECURSIVE countElements(_)
RECURSIVE countProduct(_, _)
countProduct(items, i) ==
  IF i > Len(items) THEN 1 ELSE countElements(items[i]) * countProduct(items, i + 1)
countElements(shape) ==
  IF IsLeaf(shape) THEN shape.v ELSE countProduct(shape.kids, 1)

flattenCoord(coord) == flattenNested(coord)

(***************************************************************************)
(* unflattenLike: the running index of the source is the number of leaves  *)
(* of the template that precede the current one in pre-order.              *)
(***************************************************************************)
RECURSIVE LeavesBefore(_, _)
LeavesBefore(kids, i) ==
  IF i <= 1 THEN 0
  ELSE LeavesBefore(kids, i - 1) + Len(flattenNested(kids[i - 1]))

RECURSIVE unflattenRecursive(_, _, _)
unflattenRecursive(flatArray, tmpl, index) ==
  IF IsLeaf(tmpl) THEN Leaf(flatArray[index + 1])
  ELSE Node([i \in 1..Len(tmpl.kids) |->
               unflattenRecursive(flatArray, tmpl.kids[i],
                                  index + LeavesBefore(tmpl.kids, i))])

\* variant: the flat array is returned as it is, the template's nesting is lost
unflattenFlat(flatArray, template) ==
  [ok |-> TRUE, value |-> FlatValue(flatArray)]

unflattenLike(flatArray, template) ==
  IF Len(flatArray) # Len(flattenNested(template))
  THEN [ok |-> FALSE, value |-> NoValue]
  ELSE [ok |-> TRUE, value |-> unflattenRecursive(flatArray, template, 0)]


(***************************************************************************)
(* divideLayout.  x % 0 is NaN in the source and NaN !== 0 holds, so a     *)
(* remaining divisor of 0 throws at the first mode it meets.               *)
(***************************************************************************)
Thrown == [ok |-> FALSE, shapes |-> <<>>, strides |-> <<>>]

\* strides[0] of an empty array is undefined, and undefined * n is NaN; NaN is
\* kept apart from every number the arithmetic can produce
NaN == -1000000
First(a) == IF Len(a) = 0 THEN NaN ELSE a[1]
Slice1(a) == IF Len(a) = 0 THEN <<>> ELSE Tail(a)
Times(a, b) == IF a = NaN \/ b = NaN THEN NaN ELSE a * b

RECURSIVE divideRecursive(_, _, _)

\* variant: a fully consumed mode's stride is scaled by the mode's size only
divideRecursiveStrideBySize(shapes, strides, remainingDivisor) ==
  IF Len(shapes) = 0
  THEN IF remainingDivisor # 1 THEN Thrown
       ELSE [ok |-> TRUE, shapes |-> <<>>, strides |-> <<>>]
  ELSE IF remainingDivisor = 1
  THEN [ok |-> TRUE, shapes |-> shapes, strides |-> strides]
  ELSE LET firstShape == shapes[1]
           firstStride == First(strides)
       IN IF remainingDivisor <= firstShape
          THEN IF remainingDivisor = 0 \/ firstShape % remainingDivisor # 0
               THEN Thrown
               ELSE [ok |-> TRUE,
                     shapes |-> <<firstShape \div remainingDivisor>> \o Tail(shapes),
                     strides |-> <<Times(firstStride, remainingDivisor)>> \o Slice1(strides)]
          ELSE IF remainingDivisor % firstShape # 0
               THEN Thrown
               ELSE LET rest == divideRecursive(Tail(shapes), Slice1(strides),
                                                remainingDivisor \div firstShape)
                    IN IF ~rest.ok THEN Thrown
                       ELSE [ok |-> TRUE,
                             shapes |-> <<1>> \o rest.shapes,
                             strides |-> <<Times(firstStride, firstShape)>> \o rest.strides]

\* variant: a divisor left over after the last mode is not rejected
divideRecursiveNoExhaustCheck(shapes, strides, remainingDivisor) ==
  IF Len(shapes) = 0
  THEN [ok |-> TRUE, shapes |-> <<>>, strides |-> <<>>]
  ELSE IF remainingDivisor = 1
  THEN [ok |-> TRUE, shapes |-> shapes, strides |-> strides]
  ELSE LET firstShape == shapes[1]
           firstStride == First(strides)
       IN IF remainingDivisor <= firstShape
          THEN IF remainingDivisor = 0 \/ firstShape % remainingDivisor # 0
               THEN Thrown
               ELSE [ok |-> TRUE,
                     shapes |-> <<firstShape \div remainingDivisor>> \o Tail(shapes),
                     strides |-> <<Times(firstStride, remainingDivisor)>> \o Slice1(strides)]
          ELSE IF remainingDivisor % firstShape # 0
               THEN Thrown
               ELSE LET rest == divideRecursive(Tail(shapes), Slice1(strides),
                                                remainingDivisor \div firstShape)
                    IN IF ~rest.ok THEN Thrown
                       ELSE [ok |-> TRUE,
                             shapes |-> <<1>> \o rest.shapes,
                             strides |-> <<Times(firstStride, remainingDivisor)>> \o rest.strides]

divideRecursive(shapes, strides, remainingDivisor) ==
  IF Len(shapes) = 0
  THEN IF remainingDivisor # 1 THEN Thrown
       ELSE [ok |-> TRUE, shapes |-> <<>>, strides |-> <<>>]
  ELSE IF remainingDivisor = 1
  THEN [ok |-> TRUE, shapes |-> shapes, strides |-> strides]
  ELSE LET firstShape == shapes[1]
           firstStride == First(strides)
       IN IF remainingDivisor <= firstShape
          THEN IF remainingDivisor = 0 \/ firstShape % remainingDivisor # 0
               THEN Thrown
               ELSE [ok |-> TRUE,
                     shapes |-> <<firstShape \div remainingDivisor>> \o Tail(shapes),
                     strides |-> <<Times(firstStride, remainingDivisor)>> \o Slice1(strides)]
          ELSE IF remainingDivisor % firstShape # 0
               THEN Thrown
               ELSE LET rest == divideRecursive(Tail(shapes), Slice1(strides),
                                                remainingDivisor \div firstShape)
                    IN IF ~rest.ok THEN Thrown
                       ELSE [ok |-> TRUE,
                             shapes |-> <<1>> \o rest.shapes,
                             strides |-> <<Times(firstStride, remainingDivisor)>> \o rest.strides]

Err == [ok |-> FALSE, shape |-> NoValue, stride |-> NoValue]

\* variant: the shape is divided, the strides are returned as they came
divideLayoutSameStride(shape, stride, divisor) ==
  LET flatShape == flattenNested(shape)
      flatStride == flattenNested(stride)
      r == divideRecursive(flatShape, flatStride, divisor)
  IN IF ~r.ok THEN Err
     ELSE LET us == unflattenLike(r.shapes, shape)
          IN IF us.ok THEN [ok |-> TRUE, shape |-> us.value, stride |-> stride]
             ELSE Err

\* variant: the strides are scaled, the shape is returned as it came
divideLayoutSameShape(shape, stride, divisor) ==
  LET flatShape == flattenNested(shape)
      flatStride == flattenNested(stride)
      r == divideRecursive(flatShape, flatStride, divisor)
  IN IF ~r.ok THEN Err
     ELSE LET ud == unflattenLike(r.strides, stride)
          IN IF ud.ok THEN [ok |-> TRUE, shape |-> shape, stride |-> ud.value]
             ELSE Err

divideLayout(shape, stride, divisor) ==
  LET flatShape == flattenNested(shape)
      flatStride == flattenNested(stride)
      r == divideRecursive(flatShape, flatStride, divisor)
  IN IF ~r.ok THEN Err
     ELSE LET us == unflattenLike(r.shapes, shape)
              ud == unflattenLike(r.strides, stride)
          IN IF us.ok /\ ud.ok
             THEN [ok |-> TRUE, shape |-> us.value, stride |-> ud.value]
             ELSE Err

(***************************************************************************)
(* modShape: the for-loop over flatShape, carrying `remaining`.            *)
(***************************************************************************)
RECURSIVE modShapeLoop(_, _)

\* variant: remaining is not reset to 1 after a partially kept mode
modShapeLoopKeepRemaining(flatShape, remaining) ==
  IF Len(flatShape) = 0 THEN <<>>
  ELSE LET s == Head(flatShape)
       IN IF remaining >= s
          THEN <<s>> \o modShapeLoop(Tail(flatShape), remaining \div s)
          ELSE IF remaining > 0
          THEN <<remaining>> \o modShapeLoop(Tail(flatShape), remaining)
          ELSE <<1>> \o modShapeLoop(Tail(flatShape), remaining)

\* variant: a mode that is kept whole does not reduce the modulus
modShapeLoopNoReduce(flatShape, remaining) ==
  IF Len(flatShape) = 0 THEN <<>>
  ELSE LET s == Head(flatShape)
       IN IF remaining >= s
          THEN <<s>> \o modShapeLoop(Tail(flatShape), remaining)
          ELSE IF remaining > 0
          THEN <<remaining>> \o modShapeLoop(Tail(flatShape), 1)
          ELSE <<1>> \o modShapeLoop(Tail(flatShape), remaining)

modShapeLoop(flatShape, remaining) ==
  IF Len(flatShape) = 0 THEN <<>>
  ELSE LET s == Head(flatShape)
       IN IF remaining >= s
          THEN <<s>> \o modShapeLoop(Tail(flatShape), remaining \div s)
          ELSE IF remaining > 0
          THEN <<remaining>> \o modShapeLoop(Tail(flatShape), 1)
          ELSE <<1>> \o modShapeLoop(Tail(flatShape), remaining)

\* variant: a modulus that does not divide the size is rejected, as in division
modShapeRejecting(shape, modulus) ==
  LET flatShape == flattenNested(shape)
      u == unflattenLike(modShapeLoop(flatShape, modulus), shape)
  IN IF modulus <= 0 \/ countElements(shape) % modulus # 0
     THEN [ok |-> FALSE, shape |-> NoValue]
     ELSE [ok |-> u.ok, shape |-> u.value]

modShape(shape, modulus) ==
  LET flatShape == flattenNested(shape)
      u == unflattenLike(modShapeLoop(flatShape, modulus), shape)
  IN [ok |-> u.ok, shape |-> u.value]

(***************************************************************************)
(* coalesceLayout: pop() on both arrays while the last shape entry is the  *)
(* number 1; pop() of an empty array leaves it empty, and reading index 0  *)
(* of an empty array gives undefined (NoValue).                            *)
(***************************************************************************)
Pop(a) == IF Len(a) = 0 THEN a ELSE SubSeq(a, 1, Len(a) - 1)

\* variant: every top-level mode equal to 1 is removed, not only the trailing ones
RECURSIVE TrimAllOnes(_, _)
TrimAllOnes(shapeArray, strideArray) ==
  IF Len(shapeArray) = 0 THEN [shape |-> <<>>, stride |-> <<>>]
  ELSE LET r == TrimAllOnes(Pop(shapeArray), Pop(strideArray))
       IN IF shapeArray[Len(shapeArray)] = Leaf(1) THEN r
          ELSE [shape |-> Append(r.shape, shapeArray[Len(shapeArray)]),
                stride |-> IF Len(strideArray) = 0 THEN r.stride
                           ELSE Append(r.stride, strideArray[Len(strideArray)])]

RECURSIVE TrimTrailing(_, _)
\* variant: the stride is removed from the front (shift) instead of the end
TrimTrailingShiftStride(shapeArray, strideArray) ==
  IF Len(shapeArray) > 0 /\ shapeArray[Len(shapeArray)] = Leaf(1)
  THEN TrimTrailing(Pop(shapeArray), Slice1(strideArray))
  ELSE [shape |-> shapeArray, stride |-> strideArray]

TrimTrailing(shapeArray, strideArray) ==
  IF Len(shapeArray) > 0 /\ shapeArray[Len(shapeArray)] = Leaf(1)
  THEN TrimTrailing(Pop(shapeArray), Pop(strideArray))
  ELSE [shape |-> shapeArray, stride |-> strideArray]

coalesceLayout(shape, stride) ==
  IF IsLeaf(shape) THEN [shape |-> shape, stride |-> stride]
  ELSE LET t == TrimTrailing(shape.kids,
                             IF IsNode(stride) THEN stride.kids ELSE <<stride>>)
       IN IF Len(t.shape) = 0 THEN [shape |-> Leaf(1), stride |-> Leaf(0)]
          ELSE IF Len(t.shape) = 1
          THEN [shape |-> t.shape[1],
                stride |-> IF Len(t.stride) > 0 THEN t.stride[1] ELSE NoValue]
          ELSE [shape |-> Node(t.shape), stride |-> Node(t.stride)]

(***************************************************************************)
(* The caller's arrays after coalesceLayout, the only function that writes *)
(* into an existing array (pop).  A local array either owns its items or   *)
(* is the caller's array itself; every other array written by the engine   *)
(* is created empty inside the function that fills it.                     *)
(***************************************************************************)
\* variant: the local name is bound to the caller's array, not to a copy
SharedArray(items) == [own |-> FALSE, items |-> items]

\* [...array]: a new array holding the same items
SpreadCopy(items) == [own |-> TRUE, items |-> items]

coalesceArguments(shape, stride) ==
  IF IsLeaf(shape) THEN [shape |-> shape, stride |-> stride]
  ELSE LET shapeArray == SpreadCopy(shape.kids)
           strideArray == IF IsNode(stride) THEN SpreadCopy(stride.kids)
                          ELSE [own |-> TRUE, items |-> <<stride>>]
           t == TrimTrailing(shapeArray.items, strideArray.items)
       IN [shape |-> IF shapeArray.own THEN shape ELSE Node(t.shape),
           stride |-> IF strideArray.own THEN stride ELSE Node(t.stride)]

(***************************************************************************)
(* composition.  A thrown Error inside the loop over the inner modes       *)
(* leaves the function at once; innerStride[i] beyond the end of the       *)
(* array is undefined, which matches neither case and throws.              *)
(***************************************************************************)
RECURSIVE composition(_, _, _, _)

\* the per-mode step of case 2: compose, then coalesce
composeMode(outerShape, outerStride, innerShape, innerStride, i) ==
  IF i > Len(innerStride.kids) THEN Err
  ELSE LET composed == composition(outerShape, outerStride,
                                   innerShape.kids[i], innerStride.kids[i])
       IN IF ~composed.ok THEN Err
          ELSE LET c == coalesceLayout(composed.shape, composed.stride)
               IN [ok |-> TRUE, shape |-> c.shape, stride |-> c.stride]

compositionBase(outerShape, outerStride, innerShape, innerStride) ==
  LET tmp == divideLayout(outerShape, outerStride, innerStride.v)
  IN IF ~tmp.ok THEN Err
     ELSE LET newShape == modShape(tmp.shape, innerShape.v)
          IN IF ~newShape.ok THEN Err
             ELSE [ok |-> TRUE, shape |-> newShape.shape, stride |-> tmp.stride]

\* variant: case 1 divides by the inner shape and restricts to the inner stride
compositionSwapped(outerShape, outerStride, innerShape, innerStride) ==
  IF IsLeaf(innerShape) /\ IsLeaf(innerStride)
  THEN compositionBase(outerShape, outerStride, innerStride, innerShape)
  ELSE IF IsNode(innerShape) /\ IsNode(innerStride)
  THEN LET per == [i \in 1..Len(innerShape.kids) |->
                     composeMode(outerShape, outerStride, innerShape, innerStride, i)]
       IN IF \E i \in 1..Len(innerShape.kids) : ~per[i].ok THEN Err
          ELSE [ok |-> TRUE,
                shape |-> Node([i \in 1..Len(innerShape.kids) |-> per[i].shape]),
                stride |-> Node([i \in 1..Len(innerShape.kids) |-> per[i].stride])]
  ELSE Err

\* variant: case 2 collects the per-mode results without coalescing them
compositionNoCoalesce(outerShape, outerStride, innerShape, innerStride) ==
  IF IsLeaf(innerShape) /\ IsLeaf(innerStride)
  THEN compositionBase(outerShape, outerStride, innerShape, innerStride)
  ELSE IF IsNode(innerShape) /\ IsNode(innerStride)
  THEN LET per == [i \in 1..Len(innerShape.kids) |->
                     IF i > Len(innerStride.kids) THEN Err
                     ELSE composition(outerShape, outerStride,
                                      innerShape.kids[i], innerStride.kids[i])]
       IN IF \E i \in 1..Len(innerShape.kids) : ~per[i].ok THEN Err
          ELSE [ok |-> TRUE,
                shape |-> Node([i \in 1..Len(innerShape.kids) |-> per[i].shape]),
                stride |-> Node([i \in 1..Len(innerShape.kids) |-> per[i].stride])]
  ELSE Err

\* variant: case 2 skips the modes that fail and returns the others
compositionBestEffort(outerShape, outerStride, innerShape, innerStride) ==
  IF IsLeaf(innerShape) /\ IsLeaf(innerStride)
  THEN compositionBase(outerShape, outerStride, innerShape, innerStride)
  ELSE IF IsNode(innerShape) /\ IsNode(innerStride)
  THEN LET per == [i \in 1..Len(innerShape.kids) |->
                     composeMode(outerShape, outerStride, innerShape, innerStride, i)]
           good == SelectSeq([i \in 1..Len(innerShape.kids) |-> per[i]],
                             LAMBDA r : r.ok)
       IN [ok |-> TRUE,
           shape |-> Node([i \in 1..Len(good) |-> good[i].shape]),
           stride |-> Node([i \in 1..Len(good) |-> good[i].stride])]
  ELSE Err

composition(outerShape, outerStride, innerShape, innerStride) ==
  IF IsLeaf(innerShape) /\ IsLeaf(innerStride)
  THEN compositionBase(outerShape, outerStride, innerShape, innerStride)
  ELSE IF IsNode(innerShape) /\ IsNode(innerStride)
  THEN LET per == [i \in 1..Len(innerShape.kids) |->
                     composeMode(outerShape, outerStride, innerShape, innerStride, i)]
       IN IF \E i \in 1..Len(innerShape.kids) : ~per[i].ok THEN Err
          ELSE [ok |-> TRUE,
                shape |-> Node([i \in 1..Len(innerShape.kids) |-> per[i].shape]),
                stride |-> Node([i \in 1..Len(innerShape.kids) |-> per[i].stride])]
  ELSE Err

(***************************************************************************)
(* generateCoordinates, calculateOffset, offsetToCoordinate                *)
(***************************************************************************)
RECURSIVE combine(_)
\* variant: row-major, the last dimension changes fastest
combineRowMajor(lists) ==
  IF Len(lists) = 0 THEN <<>>
  ELSE IF Len(lists) = 1 THEN lists[1]
  ELSE LET restCoords == combine(SubSeq(lists, 1, Len(lists) - 1))
           lastCoords == lists[Len(lists)]
           nl == Len(lastCoords)
       IN [k \in 1..(nl * Len(restCoords)) |->
             LET lastVal == lastCoords[((k - 1) % nl) + 1]
                 restCoord == restCoords[((k - 1) \div nl) + 1]
             IN IF IsLeaf(restCoord) THEN Node(<<restCoord, lastVal>>)
                ELSE Node(restCoord.kids \o <<lastVal>>)]

combine(lists) ==
  IF Len(lists) = 0 THEN <<>>
  ELSE IF Len(lists) = 1 THEN lists[1]
  ELSE LET restCoords == combine(SubSeq(lists, 1, Len(lists) - 1))
           lastCoords == lists[Len(lists)]
           nr == Len(restCoords)
       IN [k \in 1..(Len(lastCoords) * nr) |->
             LET lastVal == lastCoords[((k - 1) \div nr) + 1]
                 restCoord == restCoords[((k - 1) % nr) + 1]
             IN IF IsLeaf(restCoord) THEN Node(<<restCoord, lastVal>>)
                ELSE Node(restCoord.kids \o <<lastVal>>)]

RECURSIVE generateNested(_)
\* variant: a number n yields the n + 1 coordinates 0..n
generateNestedInclusive(shape) ==
  IF IsLeaf(shape) THEN [i \in 1..(shape.v + 1) |-> Leaf(i - 1)]
  ELSE combine([i \in 1..Len(shape.kids) |-> generateNested(shape.kids[i])])

generateNested(shape) ==
  IF IsLeaf(shape) THEN [i \in 1..shape.v |-> Leaf(i - 1)]
  ELSE combine([i \in 1..Len(shape.kids) |-> generateNested(shape.kids[i])])

generateCoordinates(shape, flat) ==
  LET coords == generateNested(shape)
  IN IF flat THEN [i \in 1..Len(coords) |-> FlatValue(flattenCoord(coords[i]))]
     ELSE coords

RECURSIVE DotFrom(_, _, _)
\* variant: only the first coordinate is multiplied, the other strides are summed
DotFromFirstOnly(flatCoords, flatStrides, i) ==
  IF i > Len(flatCoords) THEN 0
  ELSE (IF i = 1 THEN flatCoords[i] * flatStrides[i] ELSE flatStrides[i])
       + DotFrom(flatCoords, flatStrides, i + 1)

DotFrom(flatCoords, flatStrides, i) ==
  IF i > Len(flatCoords) THEN 0
  ELSE flatCoords[i] * flatStrides[i] + DotFrom(flatCoords, flatStrides, i + 1)

\* variant: a negative coordinate is rejected like a dimension mismatch
calculateOffsetNonNegative(coords, strides) ==
  LET flatCoords == flattenCoord(coords)
      flatStrides == flattenCoord(strides)
  IN IF Len(flatCoords) # Len(flatStrides) THEN [ok |-> FALSE, offset |-> 0]
     ELSE IF \E i \in 1..Len(flatCoords) : flatCoords[i] < 0
     THEN [ok |-> FALSE, offset |-> 0]
     ELSE [ok |-> TRUE, offset |-> DotFrom(flatCoords, flatStrides, 1)]

calculateOffset(coords, strides) ==
  LET flatCoords == flattenCoord(coords)
      flatStrides == flattenCoord(strides)
  IN IF Len(flatCoords) # Len(flatStrides) THEN [ok |-> FALSE, offset |-> 0]
     ELSE [ok |-> TRUE, offset |-> DotFrom(flatCoords, flatStrides, 1)]

RECURSIVE offsetDigits(_, _)
\* variant: remaining is not divided by the dimension after each digit
offsetDigitsNoDivide(flatShape, remaining) ==
  IF Len(flatShape) = 0 THEN <<>>
  ELSE <<remaining % Head(flatShape)>> \o offsetDigits(Tail(flatShape), remaining)

offsetDigits(flatShape, remaining) ==
  IF Len(flatShape) = 0 THEN <<>>
  ELSE <<remaining % Head(flatShape)>>
       \o offsetDigits(Tail(flatShape), remaining \div Head(flatShape))

offsetToCoordinate(offset, shape) ==
  IF IsLeaf(shape) THEN Leaf(offset % shape.v)
  ELSE FlatValue(offsetDigits(flattenNested(shape), offset))

(***************************************************************************)
(* validateLayout and the Layout constructor.  Every value of the model is *)
(* a number or an array except NoValue (undefined), which isValidType      *)
(* rejects.  TRUE: the function returns; FALSE: it throws.                 *)
(***************************************************************************)
RECURSIVE validateLayout(_, _)

\* variant: only the top level is compared, nested modes are not visited
validateLayoutShallow(shape, stride) ==
  IF shape.tag = "none" \/ stride.tag = "none" THEN FALSE
  ELSE IF IsNode(shape) # IsNode(stride) THEN FALSE
  ELSE IF IsNode(shape) /\ IsNode(stride)
  THEN Len(shape.kids) = Len(stride.kids)
  ELSE TRUE

validateLayout(shape, stride) ==
  IF shape.tag = "none" \/ stride.tag = "none" THEN FALSE
  ELSE IF IsNode(shape) # IsNode(stride) THEN FALSE
  ELSE IF IsNode(shape) /\ IsNode(stride)
  THEN /\ Len(shape.kids) = Len(stride.kids)
       /\ \A i \in 1..Len(shape.kids) : validateLayout(shape.kids[i], stride.kids[i])
  ELSE TRUE

\* new Layout(shape, stride): the object's _shape and _stride, or the throw
LayoutConstructor(shape, stride) ==
  IF validateLayout(shape, stride)
  THEN [ok |-> TRUE, shape |-> shape, stride |-> stride]
  ELSE Err

(***************************************************************************)
(* generateLayoutGrid.  countElements, generateCoordinates and             *)
(* calculateOffset are the functions above (visualizeLayout builds the     *)
(* same grid from them).  The record holds rows, cols and gridData; the    *)
(* labels and offsetToCoordList are computed apart from gridData and are   *)
(* not part of it.                                                         *)
(***************************************************************************)
\* validateValues(val, 'Shape'): TRUE when it returns, FALSE when it throws
RECURSIVE validateValues(_)
validateValues(val) ==
  IF IsLeaf(val) THEN val.v > 0
  ELSE IF IsNode(val) THEN \A i \in 1..Len(val.kids) : validateValues(val.kids[i])
  ELSE TRUE

GridErr == [ok |-> FALSE, rows |-> 0, cols |-> 0, gridData |-> <<>>]

\* variant: the two loops are exchanged, the cells are stored column by column
generateLayoutGridColumnFirst(shape, stride) ==
  IF ~validateValues(shape) THEN GridErr
  ELSE IF IsNode(shape) /\ Len(shape.kids) = 2 /\ IsNode(stride)
  THEN LET mode0Coords == generateCoordinates(shape.kids[1], FALSE)
           mode1Coords == generateCoordinates(shape.kids[2], FALSE)
           n0 == Len(mode0Coords)
           n1 == Len(mode1Coords)
           offset0(rowIdx) == calculateOffset(mode0Coords[rowIdx + 1], stride.kids[1])
           offset1(colIdx) == calculateOffset(mode1Coords[colIdx + 1], stride.kids[2])
       IN IF \/ \E rowIdx \in 0..(n0 - 1) : ~offset0(rowIdx).ok
             \/ \E colIdx \in 0..(n1 - 1) : ~offset1(colIdx).ok
          THEN GridErr
          ELSE [ok |-> TRUE,
                rows |-> countElements(shape.kids[1]),
                cols |-> countElements(shape.kids[2]),
                gridData |->
                  [k \in 1..(n0 * n1) |->
                     LET colIdx == (k - 1) \div n0
                         rowIdx == (k - 1) % n0
                     IN [row |-> rowIdx, col |-> colIdx,
                         offset |-> offset0(rowIdx).offset + offset1(colIdx).offset,
                         coords |-> Node(<<mode0Coords[rowIdx + 1],
                                           mode1Coords[colIdx + 1]>>)]]]
  ELSE LET coords == generateCoordinates(shape, FALSE)
       IN IF \E i \in 1..Len(coords) : ~calculateOffset(coords[i], stride).ok
          THEN GridErr
          ELSE [ok |-> TRUE, rows |-> 1, cols |-> Len(coords),
                gridData |->
                  [i \in 1..Len(coords) |->
                     [row |-> 0, col |-> i - 1,
                      offset |-> calculateOffset(coords[i], stride).offset,
                      coords |-> coords[i]]]]

generateLayoutGrid(shape, stride) ==
  IF ~validateValues(shape) THEN GridErr
  ELSE IF IsNode(shape) /\ Len(shape.kids) = 2 /\ IsNode(stride)
  THEN LET mode0Coords == generateCoordinates(shape.kids[1], FALSE)
           mode1Coords == generateCoordinates(shape.kids[2], FALSE)
           n0 == Len(mode0Coords)
           n1 == Len(mode1Coords)
           offset0(rowIdx) == calculateOffset(mode0Coords[rowIdx + 1], stride.kids[1])
           offset1(colIdx) == calculateOffset(mode1Coords[colIdx + 1], stride.kids[2])
       IN IF \/ \E rowIdx \in 0..(n0 - 1) : ~offset0(rowIdx).ok
             \/ \E colIdx \in 0..(n1 - 1) : ~offset1(colIdx).ok
          THEN GridErr
          ELSE [ok |-> TRUE,
                rows |-> countElements(shape.kids[1]),
                cols |-> countElements(shape.kids[2]),
                gridData |->
                  [k \in 1..(n0 * n1) |->
                     LET rowIdx == (k - 1) \div n1
                         colIdx == (k - 1) % n1
                     IN [row |-> rowIdx, col |-> colIdx,
                         offset |-> offset0(rowIdx).offset + offset1(colIdx).offset,
                         coords |-> Node(<<mode0Coords[rowIdx + 1],
                                           mode1Coords[colIdx + 1]>>)]]]
  ELSE LET coords == generateCoordinates(shape, FALSE)
       IN IF \E i \in 1..Len(coords) : ~calculateOffset(coords[i], stride).ok
          THEN GridErr
          ELSE [ok |-> TRUE, rows |-> 1, cols |-> Len(coords),
                gridData |->
                  [i \in 1..Len(coords) |->
                     [row |-> 0, col |-> i - 1,
                      offset |-> calculateOffset(coords[i], stride).offset,
                      coords |-> coords[i]]]]

(***************************************************************************)
(* Two trees have the same tree shape.                                     *)
(***************************************************************************)
RECURSIVE SameStructure(_, _)
SameStructure(a, b) ==
  \/ IsLeaf(a) /\ IsLeaf(b)
  \/ /\ IsNode(a) /\ IsNode(b)
     /\ Len(a.kids) = Len(b.kids)
     /\ \A i \in 1..Len(a.kids) : SameStructure(a.kids[i], b.kids[i])

(***************************************************************************)
(* Inputs.  A layout is a (shape, stride) pair of identical tree shape,    *)
(* positive shape leaves and non-negative strides; the documented examples *)
(* of the source are added to the enumerated ones.                         *)
(***************************************************************************)
Layout(shape, stride) == [shape |-> shape, stride |-> stride]
NoLayout == Layout(NoValue, NoValue)
FlatLayout(ss, ds) == Layout(FlatValue(ss), FlatValue(ds))

LeafLayouts(S, D) == {Layout(Leaf(s), Leaf(d)) : s \in S, d \in D}
Wrap1(L) == {Layout(Node(<<a.shape>>), Node(<<a.stride>>)) : a \in L}
Wrap2(L, M) ==
  {Layout(Node(<<a.shape, b.shape>>), Node(<<a.stride, b.stride>>)) : a \in L, b \in M}
Wrap3(L, M, N) ==
  {Layout(Node(<<a.shape, b.shape, c.shape>>), Node(<<a.stride, b.stride, c.stride>>)) :
     a \in L, b \in M, c \in N}

OuterLeaves == LeafLayouts(1..MaxShapeLeaf, 0..MaxStrideLeaf)
InnerLeaves == LeafLayouts(1..MaxShapeLeaf, 0..MaxInnerStride)

DocOuter == FlatLayout(<<3, 6, 2, 8>>, <<5, 15, 90, 180>>)
ReadmeOuter == FlatLayout(<<6, 2>>, <<8, 2>>)
ReadmeInner == FlatLayout(<<4, 3>>, <<3, 1>>)

\* an injective inner layout inside the outer layout's domain whose first mode
\* (size 3) does not fit the outer mode (size 2) it is restricted to
UnevenOuter == FlatLayout(<<2, 4>>, <<1, 2>>)
UnevenInner == FlatLayout(<<3, 2>>, <<1, 4>>)

\* first layouts of a composition
OuterLayouts ==
  OuterLeaves \cup Wrap1(OuterLeaves) \cup Wrap2(OuterLeaves, OuterLeaves)
    \cup Wrap1(Wrap1(OuterLeaves))

\* second layouts of a composition
InnerLayouts ==
  InnerLeaves \cup Wrap1(InnerLeaves) \cup Wrap2(InnerLeaves, InnerLeaves)
    \cup Wrap1(Wrap1(InnerLeaves)) \cup Wrap2(InnerLeaves, Wrap1(InnerLeaves))

\* layouts of the one-layout operations
Layouts ==
  OuterLayouts
    \cup Wrap3(OuterLeaves, OuterLeaves, OuterLeaves)
    \cup Wrap2(Wrap2(OuterLeaves, OuterLeaves), OuterLeaves)
    \cup Wrap2(OuterLeaves, Wrap2(OuterLeaves, OuterLeaves))

DivideInputs ==
  (Layouts \X (0..MaxDivisor))
    \cup {<<FlatLayout(<<6, 2>>, <<1, 6>>), 2>>, <<DocOuter, 72>>, <<DocOuter, 9>>}

ModInputs ==
  ({l.shape : l \in Layouts} \X ((0 - 1)..MaxModulus))
    \cup {<<Leaf(6), 2>>, <<FlatValue(<<6, 2>>), 6>>, <<FlatValue(<<3, 6, 2, 8>>), 6>>}

CoalesceInputs ==
  Layouts \cup {FlatLayout(<<3, 1>>, <<8, 2>>), FlatLayout(<<5, 1>>, <<16, 4>>),
                FlatLayout(<<2, 2>>, <<24, 2>>)}

ComposeInputs ==
  (OuterLayouts \X InnerLayouts)
    \cup {<<DocOuter, Layout(Leaf(16), Leaf(9))>>, <<ReadmeOuter, ReadmeInner>>,
          <<UnevenOuter, UnevenInner>>}

(***************************************************************************)
(* Inputs that break the layout invariant: a shape and a stride whose      *)
(* trees differ in nesting or in length at some position.                  *)
(***************************************************************************)
ShapeTrees == {l.shape : l \in Layouts}
StrideTrees == {l.stride : l \in Layouts}

MismatchedOuter ==
  {l \in {Layout(s, d) : s \in {a.shape : a \in OuterLayouts},
                         d \in {b.stride : b \in OuterLayouts}} :
     ~SameStructure(l.shape, l.stride)}

MismatchedInner ==
  {l \in {Layout(s, d) : s \in {a.shape : a \in InnerLayouts},
                         d \in {b.stride : b \in InnerLayouts}} :
     ~SameStructure(l.shape, l.stride)}

MismatchedDivideInputs == MismatchedOuter \X (0..MaxDivisor)

MismatchedComposeInputs ==
  (MismatchedOuter \X InnerLeaves) \cup (OuterLeaves \X MismatchedInner)

\* validateLayout / new Layout: every pairing of a shape tree with a stride tree
ValidateInputs ==
  (ShapeTrees \X StrideTrees)
    \cup {<<Leaf(8), Leaf(1)>>, <<FlatValue(<<4, 8>>), FlatValue(<<1, 4>>)>>,
          <<FlatValue(<<4, 8>>), Leaf(1)>>}

\* every nesting skeleton of the one-layout operations over the leaves L
Skeletons(L) ==
  L \cup Wrap1(L) \cup Wrap2(L, L) \cup Wrap1(Wrap1(L)) \cup Wrap3(L, L, L)
    \cup Wrap2(Wrap2(L, L), L) \cup Wrap2(L, Wrap2(L, L))

\* shapes of generateCoordinates and offsetToCoordinate; the last one has a
\* nested mode in the middle
CoordShapes ==
  ShapeTrees \cup {Node(<<Leaf(2), FlatValue(<<2, 2>>), Leaf(2)>>)}

\* coordinates of calculateOffset: nothing bounds them, negative ones included
CoordTrees == {l.shape : l \in Skeletons(LeafLayouts((0 - 1)..MaxCoordLeaf, {0}))}

OffsetInputs ==
  (CoordTrees \X StrideTrees)
    \cup {<<FlatValue(<<1, 2>>), FlatValue(<<1, 4>>)>>,
          <<Node(<<Leaf(5), FlatValue(<<2, 3>>)>>), Node(<<Leaf(59), FlatValue(<<13, 1>>)>>)>>,
          <<FlatValue(<<5, 2, 3>>), FlatValue(<<59, 13, 1>>)>>}

\* layouts shown as a grid: the enumerated ones, test cases of the source and
\* a shape with a leaf that is not positive
ColumnMajor48 == FlatLayout(<<4, 8>>, <<1, 4>>)
BothMultiLevel ==
  Layout(Node(<<FlatValue(<<2, 3>>), FlatValue(<<4, 2>>)>>),
         Node(<<FlatValue(<<1, 2>>), FlatValue(<<8, 4>>)>>))
GridInputs ==
  Layouts \cup {ColumnMajor48, BothMultiLevel, Layout(Leaf(16), Leaf(1)),
                FlatLayout(<<2, 0>>, <<1, 2>>)}

(***************************************************************************)
(* State: the engine keeps none between calls; a state is one call, its    *)
(* arguments and (once it has returned or thrown) its outcome.             *)
(***************************************************************************)
VARIABLES pc, op, outer, inner, num, res, after

vars == <<pc, op, outer, inner, num, res, after>>

(***************************************************************************)
(* State of src/src/bridge/pyodide.ts: the two module variables, the       *)
(* position of the async function stored in initializationPromise, and the *)
(* pending calls of initPyodide and of the bridge functions.               *)
(*   pyodideInstance        0 is null, n > 0 the n-th loaded runtime       *)
(*   initializationPromise  state "null" is the null of the source         *)
(*   initStep               the await the initialization is suspended at   *)
(*   fetched                Python files written so far                    *)
(*   created                the local `pyodide` of the initialization      *)
(*   loadCount              calls of loadPyodide so far                    *)
(*   calls                  per caller: its current call                   *)
(***************************************************************************)
VARIABLES pyodideInstance, initializationPromise, initStep, fetched, created,
          loadCount, calls

bridgeVars ==
  <<pyodideInstance, initializationPromise, initStep, fetched, created, loadCount, calls>>

Callers == 1..NumCallers

\* utils.py, layout.py, composition.py, layout_string_parser.py
PythonFiles == 4

NullPromise == [state |-> "null", value |-> 0, error |-> "none"]
PendingPromise == [state |-> "pending", value |-> 0, error |-> "none"]
FulfilledPromise(v) == [state |-> "fulfilled", value |-> v, error |-> "none"]

\* variant: a failed initialization clears the stored promise
ClearedPromise(e) == [state |-> "null", value |-> 0, error |-> "none"]

RejectedPromise(e) == [state |-> "rejected", value |-> 0, error |-> e]

IdleCall ==
  [state |-> "idle", kind |-> "none", saw |-> "none", source |-> "none",
   value |-> 0, error |-> "none", n |-> 0]

BridgeInit ==
  /\ pyodideInstance = 0
  /\ initializationPromise = NullPromise
  /\ initStep = "none"
  /\ fetched = 0
  /\ created = 0
  /\ loadCount = 0
  /\ calls = [c \in Callers |-> IdleCall]

(***************************************************************************)
(* State of the Composition page (src/src/pages/Composition.tsx).          *)
(*   layoutInput  the pair (layoutAInput, layoutBInput), by name           *)
(*   runsStarted  runs of the calculateLayouts effect so far               *)
(*   waiting      runs suspended on the initialization promise, in the     *)
(*                order they subscribed                                    *)
(*   queue        runs whose awaited promise has settled, in the order     *)
(*                their continuations will run                             *)
(*   shown        the input layoutA, layoutB, layoutResult and             *)
(*                layoutBCoords were computed from ("none": the empty ones)*)
(*   error        "" or the input whose run set the error ("init": the     *)
(*                error of the initialization)                             *)
(***************************************************************************)
VARIABLES layoutInput, runsStarted, waiting, queue, shown, error

pageVars == <<layoutInput, runsStarted, waiting, queue, shown, error>>

PageInit ==
  /\ layoutInput = "default"
  /\ runsStarted = 0
  /\ waiting = <<>>
  /\ queue = <<>>
  /\ shown = "none"
  /\ error = ""

Init ==
  /\ BridgeInit
  /\ PageInit
  /\ pc = "idle"
  /\ op = "none"
  /\ outer = NoLayout
  /\ inner = NoLayout
  /\ num = 0
  /\ res = Err
  /\ after = [outer |-> NoLayout, inner |-> NoLayout]

DivideLayout ==
  /\ pc = "idle"
  /\ \E in \in DivideInputs \cup MismatchedDivideInputs :
       /\ outer' = in[1]
       /\ num' = in[2]
       /\ res' = divideLayout(in[1].shape, in[1].stride, in[2])
  /\ inner' = NoLayout
  /\ op' = "divideLayout"
  /\ after' = [outer |-> outer', inner |-> inner']
  /\ UNCHANGED <<bridgeVars, pageVars>>
  /\ pc' = "done"

ModShape ==
  /\ pc = "idle"
  /\ \E in \in ModInputs :
       /\ outer' = Layout(in[1], NoValue)
       /\ num' = in[2]
       /\ res' = LET r == modShape(in[1], in[2])
                 IN [ok |-> r.ok, shape |-> r.shape, stride |-> NoValue]
  /\ inner' = NoLayout
  /\ op' = "modShape"
  /\ after' = [outer |-> outer', inner |-> inner']
  /\ UNCHANGED <<bridgeVars, pageVars>>
  /\ pc' = "done"

CoalesceLayout ==
  /\ pc = "idle"
  /\ \E in \in CoalesceInputs \cup MismatchedOuter :
       /\ outer' = in
       /\ res' = LET r == coalesceLayout(in.shape, in.stride)
                 IN [ok |-> TRUE, shape |-> r.shape, stride |-> r.stride]
  /\ inner' = NoLayout
  /\ num' = 0
  /\ op' = "coalesceLayout"
  /\ after' = [outer |-> coalesceArguments(outer'.shape, outer'.stride), inner |-> inner']
  /\ UNCHANGED <<bridgeVars, pageVars>>
  /\ pc' = "done"

Composition ==
  /\ pc = "idle"
  /\ \E in \in ComposeInputs \cup MismatchedComposeInputs :
       /\ outer' = in[1]
       /\ inner' = in[2]
       /\ res' = composition(in[1].shape, in[1].stride, in[2].shape, in[2].stride)
  /\ num' = 0
  /\ op' = "composition"
  /\ after' = [outer |-> outer', inner |-> inner']
  /\ UNCHANGED <<bridgeVars, pageVars>>
  /\ pc' = "done"

\* flattenLayout(shape, stride)
FlattenLayout ==
  /\ pc = "idle"
  /\ \E in \in Layouts \cup {DocOuter} :
       /\ outer' = in
       /\ res' = LET r == flattenLayout(in.shape, in.stride)
                 IN [ok |-> TRUE, shape |-> FlatValue(r.shape), stride |-> FlatValue(r.stride)]
  /\ inner' = NoLayout
  /\ num' = 0
  /\ op' = "flattenLayout"
  /\ after' = [outer |-> outer', inner |-> inner']
  /\ UNCHANGED <<bridgeVars, pageVars>>
  /\ pc' = "done"

\* generateCoordinates(shape, flat); the flag is kept with the outcome
GenerateCoordinates ==
  /\ pc = "idle"
  /\ \E shape \in CoordShapes, flat \in BOOLEAN :
       /\ outer' = Layout(shape, NoValue)
       /\ res' = [ok |-> TRUE, flat |-> flat, coords |-> generateCoordinates(shape, flat)]
  /\ inner' = NoLayout
  /\ num' = 0
  /\ op' = "generateCoordinates"
  /\ after' = [outer |-> outer', inner |-> inner']
  /\ UNCHANGED <<bridgeVars, pageVars>>
  /\ pc' = "done"

\* calculateOffset(coords, strides), also reached through Layout.offset;
\* the coordinate is kept in inner.shape, the strides in outer.stride
CalculateOffset ==
  /\ pc = "idle"
  /\ \E in \in OffsetInputs :
       /\ inner' = Layout(in[1], NoValue)
       /\ outer' = Layout(NoValue, in[2])
       /\ res' = calculateOffset(in[1], in[2])
  /\ num' = 0
  /\ op' = "calculateOffset"
  /\ after' = [outer |-> outer', inner |-> inner']
  /\ UNCHANGED <<bridgeVars, pageVars>>
  /\ pc' = "done"

\* offsetToCoordinate(offset, shape), offsets up to one past the last element
OffsetToCoordinate ==
  /\ pc = "idle"
  /\ \E shape \in CoordShapes :
       \E offset \in 0..countElements(shape) :
         /\ outer' = Layout(shape, NoValue)
         /\ num' = offset
         /\ res' = [ok |-> TRUE, coord |-> offsetToCoordinate(offset, shape)]
  /\ inner' = NoLayout
  /\ op' = "offsetToCoordinate"
  /\ after' = [outer |-> outer', inner |-> inner']
  /\ UNCHANGED <<bridgeVars, pageVars>>
  /\ pc' = "done"

\* new Layout(shape, stride)
NewLayout ==
  /\ pc = "idle"
  /\ \E in \in ValidateInputs :
       /\ outer' = Layout(in[1], in[2])
       /\ res' = LayoutConstructor(in[1], in[2])
  /\ inner' = NoLayout
  /\ num' = 0
  /\ op' = "newLayout"
  /\ after' = [outer |-> outer', inner |-> inner']
  /\ UNCHANGED <<bridgeVars, pageVars>>
  /\ pc' = "done"

\* generateLayoutGrid(shape, stride)
GenerateLayoutGrid ==
  /\ pc = "idle"
  /\ \E in \in GridInputs :
       /\ outer' = in
       /\ res' = generateLayoutGrid(in.shape, in.stride)
  /\ inner' = NoLayout
  /\ num' = 0
  /\ op' = "generateLayoutGrid"
  /\ after' = [outer |-> outer', inner |-> inner']
  /\ UNCHANGED <<bridgeVars, pageVars>>
  /\ pc' = "done"

\* the call is over; nothing of it is kept
Return ==
  /\ pc = "done"
  /\ pc' = "idle"
  /\ op' = "none"
  /\ outer' = NoLayout
  /\ inner' = NoLayout
  /\ num' = 0
  /\ res' = Err
  /\ after' = [outer |-> NoLayout, inner |-> NoLayout]
  /\ UNCHANGED <<bridgeVars, pageVars>>

Next ==
  \/ DivideLayout \/ ModShape \/ CoalesceLayout \/ Composition
  \/ GenerateCoordinates \/ CalculateOffset \/ OffsetToCoordinate \/ NewLayout
  \/ FlattenLayout \/ GenerateLayoutGrid
  \/ Return

Spec == Init /\ [][Next]_vars

(***************************************************************************)
(* initPyodide, getPyodide, isPyodideReady and the bridge functions.       *)
(* JavaScript runs one task at a time: an action is the code between two   *)
(* awaits.  The outcome of an import, a load, a fetch or a Python call is  *)
(* not decided by the program and is chosen freely.                        *)
(***************************************************************************)
allVars == <<vars, bridgeVars, pageVars>>

getPyodide ==
  IF pyodideInstance = 0 THEN [ok |-> FALSE, value |-> 0]
  ELSE [ok |-> TRUE, value |-> pyodideInstance]

isPyodideReady == pyodideInstance # 0

\* variant: the promise of an initialization in progress is not looked at
initPyodidePathNoPromiseCheck ==
  IF pyodideInstance # 0 THEN "instance" ELSE "start"

\* which return of initPyodide a call made now takes
initPyodidePath ==
  IF pyodideInstance # 0 THEN "instance"
  ELSE IF initializationPromise.state # "null" THEN "promise"
  ELSE "start"

\* initPyodide() up to its return: the stored promise and the initialization
\* it starts, which runs to its first await
initPyodide ==
  IF initPyodidePath = "start"
  THEN /\ initializationPromise' = PendingPromise
       /\ initStep' = "import"
       /\ fetched' = 0
       /\ created' = 0
  ELSE UNCHANGED <<initializationPromise, initStep, fetched, created>>

\* a call of initPyodide() itself, or of a bridge function (composition of
\* layoutBridge.ts; all of them begin with `await initPyodide()`), up to that
\* await
CallInitPyodide ==
  \E c \in Callers, kind \in {"initPyodide", "composition"} :
    /\ calls[c].state = "idle"
    /\ calls[c].n < MaxCalls
    /\ initPyodide
    /\ calls' = [calls EXCEPT ![c] =
         [state |-> "waiting", kind |-> kind,
          saw |-> initializationPromise.state,
          source |-> IF initPyodidePath = "instance" THEN "value" ELSE "promise",
          value |-> IF initPyodidePath = "instance" THEN pyodideInstance ELSE 0,
          error |-> "none", n |-> calls[c].n + 1]]
    /\ UNCHANGED <<pyodideInstance, loadCount>>
    /\ UNCHANGED <<vars, pageVars>>

\* the promise a waiting call awaits has settled and the call goes on
Settled(c) ==
  IF calls[c].source = "value" THEN FulfilledPromise(calls[c].value)
  ELSE initializationPromise

Resume ==
  \E c \in Callers :
    /\ calls[c].state = "waiting"
    /\ Settled(c).state \in {"fulfilled", "rejected"}
    /\ \E pythonOk \in BOOLEAN :
         calls' = [calls EXCEPT ![c] =
           IF Settled(c).state = "rejected"
           THEN [@ EXCEPT !.state = "rejected", !.error = Settled(c).error]
           ELSE IF calls[c].kind = "initPyodide"
           THEN [@ EXCEPT !.state = "resolved", !.value = Settled(c).value]
           ELSE IF ~getPyodide.ok
           THEN [@ EXCEPT !.state = "rejected", !.error = "not initialized"]
           ELSE IF pythonOk
           THEN [@ EXCEPT !.state = "resolved", !.value = getPyodide.value]
           ELSE [@ EXCEPT !.state = "rejected", !.error = "Failed to compute composition"]]
    /\ UNCHANGED <<pyodideInstance, initializationPromise, initStep, fetched, created,
                   loadCount>>
    /\ UNCHANGED <<vars, pageVars>>

\* the caller is done with the outcome and may call again
Forget ==
  \E c \in Callers :
    /\ calls[c].state \in {"resolved", "rejected"}
    /\ calls' = [calls EXCEPT ![c] = [IdleCall EXCEPT !.n = calls[c].n]]
    /\ UNCHANGED <<pyodideInstance, initializationPromise, initStep, fetched, created,
                   loadCount>>
    /\ UNCHANGED <<vars, pageVars>>

\* the stored promise settles: the continuations subscribed to it are queued
\* in the order of their subscription
SettleSubscribers ==
  /\ queue' = queue \o waiting
  /\ waiting' = <<>>
  /\ UNCHANGED <<layoutInput, runsStarted, shown, error>>

\* the initialization throws at its current await
Fail(e) ==
  /\ initializationPromise' = RejectedPromise(e)
  /\ initStep' = "failed"
  /\ UNCHANGED <<pyodideInstance, fetched, created>>
  /\ SettleSubscribers

\* await import('pyodide')
ImportModule ==
  /\ initStep = "import"
  /\ \E ok \in BOOLEAN :
       IF ok
       THEN /\ initStep' = "load"
            /\ UNCHANGED <<pyodideInstance, initializationPromise, fetched, created>>
            /\ UNCHANGED pageVars
       ELSE Fail("import")
  /\ UNCHANGED <<loadCount, calls>>
  /\ UNCHANGED vars

\* await loadPyodide({...})
LoadRuntime ==
  /\ initStep = "load"
  /\ loadCount < MaxLoads
  /\ loadCount' = loadCount + 1
  /\ \E ok \in BOOLEAN :
       IF ok
       THEN /\ created' = loadCount + 1
            /\ initStep' = "fetch"
            /\ UNCHANGED <<pyodideInstance, initializationPromise, fetched>>
            /\ UNCHANGED pageVars
       ELSE Fail("load")
  /\ UNCHANGED calls
  /\ UNCHANGED vars

\* one turn of the loop over pythonFiles: fetch, text, writeFile
FetchFile ==
  /\ initStep = "fetch"
  /\ \E ok \in BOOLEAN :
       IF ok
       THEN /\ fetched' = fetched + 1
            /\ initStep' = IF fetched + 1 = PythonFiles THEN "verify" ELSE "fetch"
            /\ UNCHANGED <<pyodideInstance, initializationPromise, created>>
            /\ UNCHANGED pageVars
       ELSE Fail("fetch")
  /\ UNCHANGED <<loadCount, calls>>
  /\ UNCHANGED vars

\* runPython('from cute_layout import layout_string_parser'), then
\* pyodideInstance = pyodide; return pyodide
VerifyImport ==
  /\ initStep = "verify"
  /\ \E ok \in BOOLEAN :
       IF ok
       THEN /\ pyodideInstance' = created
            /\ initializationPromise' = FulfilledPromise(created)
            /\ initStep' = "end"
            /\ UNCHANGED <<fetched, created>>
            /\ SettleSubscribers
       ELSE Fail("verify")
  /\ UNCHANGED <<loadCount, calls>>
  /\ UNCHANGED vars

BridgeNext ==
  \/ CallInitPyodide \/ Resume \/ Forget
  \/ ImportModule \/ LoadRuntime \/ FetchFile \/ VerifyImport

BridgeSpec == Init /\ [][BridgeNext]_allVars

(***************************************************************************)
(* The calculateLayouts effect of the Composition page.  A run is the      *)
(* async function started by one execution of the effect; it has no        *)
(* cleanup and no cancellation.  Every await of a run is the await of a    *)
(* bridge function, all of which have the same form, so the continuations  *)
(* of the runs take turns in the order of the queue.  An input event is a  *)
(* task of its own: it is handled when no continuation is queued.          *)
(***************************************************************************)
PageInputs == {"default", "small", "bad", "undividable"}

\* what parseLayoutString makes of the two input strings: the initial
\* strings of the page, a small pair, a string that does not parse, a pair
\* whose composition throws
PageInput(id) ==
  CASE id = "default" -> [parses |-> TRUE, a |-> ReadmeOuter, b |-> ReadmeInner]
    [] id = "small" ->
         [parses |-> TRUE, a |-> Layout(Leaf(2), Leaf(1)), b |-> Layout(Leaf(2), Leaf(1))]
    [] id = "bad" -> [parses |-> FALSE, a |-> NoLayout, b |-> NoLayout]
    [] id = "undividable" ->
         [parses |-> TRUE, a |-> Layout(Leaf(3), Leaf(1)), b |-> Layout(Leaf(2), Leaf(2))]

\* the number of awaits generateLayoutGrid goes through
AwaitsOfGrid(layout) ==
  IF IsNode(layout.shape) /\ Len(layout.shape.kids) = 2 /\ IsNode(layout.stride)
  THEN LET n0 == Len(generateCoordinates(layout.shape.kids[1], FALSE))
           n1 == Len(generateCoordinates(layout.shape.kids[2], FALSE))
       IN 2 + 2 + n0 + n0 * n1 + 1
  ELSE 1 + Len(generateCoordinates(layout.shape, FALSE)) + 1

\* the awaits a run of calculateLayouts goes through before it sets the
\* state, and whether it ends in the catch block
RunOf(id) ==
  LET in == PageInput(id)
  IN IF ~in.parses THEN [awaits |-> 1, fails |-> TRUE]
     ELSE LET c == composition(in.a.shape, in.a.stride, in.b.shape, in.b.stride)
              upToComposition == 1 + AwaitsOfGrid(in.a) + 1 + AwaitsOfGrid(in.b) + 1
          IN IF ~c.ok THEN [awaits |-> upToComposition, fails |-> TRUE]
             ELSE [awaits |-> upToComposition + AwaitsOfGrid(Layout(c.shape, c.stride)) + 1,
                   fails |-> FALSE]

\* the effect runs: at mount with the initial input, later when an input has
\* changed; calculateLayouts runs up to the await inside parseLayoutString
StartRun ==
  /\ queue = <<>>
  /\ runsStarted < MaxRuns
  /\ \E id \in PageInputs :
       /\ IF runsStarted = 0 THEN id = layoutInput ELSE id # layoutInput
       /\ layoutInput' = id
       /\ LET run == [input |-> id, left |-> RunOf(id).awaits]
          IN IF initPyodidePath = "instance" \/ initializationPromise.state = "rejected"
             THEN /\ queue' = <<run>>
                  /\ waiting' = waiting
             ELSE /\ waiting' = Append(waiting, run)
                  /\ queue' = queue
  /\ runsStarted' = runsStarted + 1
  /\ error' = ""
  /\ initPyodide
  /\ UNCHANGED <<shown, pyodideInstance, loadCount, calls>>
  /\ UNCHANGED vars

\* the continuation at the head of the queue runs up to its next await, or to
\* the end of calculateLayouts
Continue ==
  /\ queue # <<>>
  /\ LET run == Head(queue)
     IN IF initializationPromise.state = "rejected"
        THEN /\ error' = "init"
             /\ shown' = "none"
             /\ queue' = Tail(queue)
        ELSE IF run.left > 1
        THEN /\ queue' = Append(Tail(queue), [run EXCEPT !.left = @ - 1])
             /\ UNCHANGED <<shown, error>>
        ELSE IF RunOf(run.input).fails
        THEN /\ error' = run.input
             /\ shown' = "none"
             /\ queue' = Tail(queue)
        ELSE /\ shown' = run.input
             /\ error' = error
             /\ queue' = Tail(queue)
  /\ UNCHANGED <<layoutInput, runsStarted, waiting>>
  /\ UNCHANGED bridgeVars
  /\ UNCHANGED vars

PageNext ==
  \/ StartRun \/ Continue
  \/ ImportModule \/ LoadRuntime \/ FetchFile \/ VerifyImport

PageSpec == Init /\ [][PageNext]_allVars

(***************************************************************************)
(* Vocabulary of the properties                                            *)
(***************************************************************************)
\* the layout invariant holds of the arguments of the call
ValidOuter == SameStructure(outer.shape, outer.stride)
ValidInner == SameStructure(inner.shape, inner.stride)

Composed == pc = "done" /\ op = "composition" /\ ValidOuter /\ ValidInner
Divided == pc = "done" /\ op = "divideLayout" /\ ValidOuter
Coalesced == pc = "done" /\ op = "coalesceLayout" /\ ValidOuter
Modded == pc = "done" /\ op = "modShape"
Generated == pc = "done" /\ op = "generateCoordinates"
OffsetCalculated == pc = "done" /\ op = "calculateOffset"
OffsetConverted == pc = "done" /\ op = "offsetToCoordinate"
Constructed == pc = "done" /\ op = "newLayout"
GridBuilt == pc = "done" /\ op = "generateLayoutGrid" /\ ValidOuter

\* the offset of a layout at its i-th (0-based) column-major coordinate
OffsetAtIndex(layout, i) ==
  calculateOffset(generateCoordinates(layout.shape, FALSE)[i + 1], layout.stride).offset

\* the offset of a layout at the coordinate offsetToCoordinate(k, shape)
OffsetAtOffset(layout, k) ==
  calculateOffset(offsetToCoordinate(k, layout.shape), layout.stride).offset

RECURSIVE ProductBefore(_, _)
ProductBefore(flat, i) == IF i <= 1 THEN 1 ELSE ProductBefore(flat, i - 1) * flat[i - 1]

(***************************************************************************)
(* C1: whenever composition(A, B) returns R, then for every index i below  *)
(* countElements(R.shape), the offset of R at its i-th column-major        *)
(* coordinate is the offset of A at offsetToCoordinate(k, A.shape), k      *)
(* being the offset of B at B's i-th column-major coordinate.              *)
(***************************************************************************)
C1_CompositionIsAofB ==
  (Composed /\ res.ok) =>
    \A i \in 0..(countElements(res.shape) - 1) :
      /\ i < countElements(inner.shape)
      /\ OffsetAtIndex(res, i) = OffsetAtOffset(outer, OffsetAtIndex(inner, i))

(***************************************************************************)
(* C2: with a leaf inner layout (s, d), composition returns exactly        *)
(* (modShape(tmp.shape, s), tmp.stride), tmp = divideLayout(outer, d);     *)
(* ([3,6,2,8],[5,15,90,180]) with (16,9) gives ([1,2,2,4],[45,45,90,180]). *)
(***************************************************************************)
C2_BaseCase ==
  (Composed /\ IsLeaf(inner.shape) /\ IsLeaf(inner.stride)) =>
    LET tmp == divideLayout(outer.shape, outer.stride, inner.stride.v)
    IN /\ res.ok = tmp.ok
       /\ tmp.ok => /\ res.shape = modShape(tmp.shape, inner.shape.v).shape
                    /\ res.stride = tmp.stride
       /\ (outer = DocOuter /\ inner = Layout(Leaf(16), Leaf(9))) =>
            /\ res.ok
            /\ Layout(res.shape, res.stride)
                 = FlatLayout(<<1, 2, 2, 4>>, <<45, 45, 90, 180>>)

C2_Witness ==
  /\ Composed
  /\ outer = DocOuter
  /\ inner = Layout(Leaf(16), Leaf(9))
  /\ res.ok

(***************************************************************************)
(* C3: with an inner layout of n top-level modes, a returned result has    *)
(* shape and stride nodes of exactly n entries, entry i being              *)
(* coalesceLayout of composition(outer, innerShape[i], innerStride[i]).    *)
(***************************************************************************)
C3_RecursiveCase ==
  (Composed /\ IsNode(inner.shape) /\ res.ok) =>
    /\ IsNode(res.shape) /\ IsNode(res.stride)
    /\ Len(res.shape.kids) = Len(inner.shape.kids)
    /\ Len(res.stride.kids) = Len(inner.shape.kids)
    /\ \A i \in 1..Len(inner.shape.kids) :
         LET c == composition(outer.shape, outer.stride,
                              inner.shape.kids[i], inner.stride.kids[i])
         IN /\ c.ok
            /\ res.shape.kids[i] = coalesceLayout(c.shape, c.stride).shape
            /\ res.stride.kids[i] = coalesceLayout(c.shape, c.stride).stride

\* the README example: the second mode composes to ([3,1],[8,2]) and is coalesced
C3_Witness ==
  /\ Composed
  /\ outer = ReadmeOuter
  /\ inner = ReadmeInner
  /\ res.ok
  /\ res.shape = Node(<<FlatValue(<<2, 2>>), Leaf(3)>>)
  /\ res.stride = Node(<<FlatValue(<<24, 2>>), Leaf(8)>>)

(***************************************************************************)
(* C4: if divideLayout(outer, d) fails for the stride d of any leaf mode   *)
(* of the inner layout, at any depth and position, the composition ends in *)
(* an error and returns no shape or stride.                                *)
(***************************************************************************)
DivideFailsFor(d) == ~divideLayout(outer.shape, outer.stride, d).ok

C4_AllOrNothing ==
  Composed =>
    LET ds == flattenNested(inner.stride)
    IN (\E j \in 1..Len(ds) : DivideFailsFor(ds[j])) => res = Err

\* the first mode composes, a later (nested) one fails
C4_Witness ==
  /\ Composed
  /\ IsNode(inner.shape)
  /\ Len(inner.shape.kids) = 2
  /\ IsLeaf(inner.stride.kids[1])
  /\ ~DivideFailsFor(inner.stride.kids[1].v)
  /\ IsNode(inner.stride.kids[2])
  /\ \E j \in 1..Len(flattenNested(inner.stride.kids[2])) :
       DivideFailsFor(flattenNested(inner.stride.kids[2])[j])
  /\ res = Err

(***************************************************************************)
(* C5: whenever composition(outer, inner) returns R,                       *)
(* countElements(R.shape) = countElements(innerShape).                     *)
(***************************************************************************)
C5_ComposedSizeIsInnerSize ==
  (Composed /\ res.ok) => countElements(res.shape) = countElements(inner.shape)

(***************************************************************************)
(* The left-to-right walk of divideLayout as the properties describe it.   *)
(* RemainingAt(flat, d, i) is the remaining divisor on arrival at mode i   *)
(* when every earlier mode was fully consumed; AbsorbAt is the first mode  *)
(* met with remaining <= its size (0 when there is none).                  *)
(***************************************************************************)
RemainingAt(flat, d, i) == d \div ProductBefore(flat, i)

AbsorbAt(flat, d) ==
  LET ks == {i \in 1..Len(flat) : RemainingAt(flat, d, i) <= flat[i]}
  IN IF ks = {} THEN 0 ELSE CHOOSE k \in ks : \A j \in ks : k <= j

ExpectedDividedShape(flat, d) ==
  LET k == AbsorbAt(flat, d)
  IN [i \in 1..Len(flat) |->
        IF i < k THEN 1
        ELSE IF i = k THEN flat[i] \div RemainingAt(flat, d, i)
        ELSE flat[i]]

ExpectedDividedStride(flat, flatStride, d) ==
  LET k == AbsorbAt(flat, d)
  IN [i \in 1..Len(flat) |->
        IF i <= k THEN flatStride[i] * RemainingAt(flat, d, i) ELSE flatStride[i]]

\* mode i is met by the walk: the divisor is not 1 and every earlier mode
\* was larger than needed and divided the remaining divisor
ModeMet(flat, d, i) ==
  /\ d # 1
  /\ \A j \in 1..(i - 1) :
       /\ RemainingAt(flat, d, j) > flat[j]
       /\ RemainingAt(flat, d, j) % flat[j] = 0

DivisibilityViolated(flat, d) ==
  \/ \E i \in 1..Len(flat) :
       /\ ModeMet(flat, d, i)
       /\ LET r == RemainingAt(flat, d, i)
          IN \/ r <= flat[i] /\ flat[i] % r # 0
             \/ r > flat[i] /\ r % flat[i] # 0
  \/ /\ ModeMet(flat, d, Len(flat) + 1)
     /\ RemainingAt(flat, d, Len(flat) + 1) # 1

(***************************************************************************)
(* C6: on success, every mode met with r > s becomes (1, st * r) and r     *)
(* becomes r / s; the first mode met with r <= s becomes (s / r, st * r);  *)
(* all later modes, and all modes when the divisor is 1, are unchanged.    *)
(* divideLayout([6,2],[1,6],2) = ([3,2],[2,6]) and                         *)
(* divideLayout([3,6,2,8],[5,15,90,180],72) = ([1,1,1,4],[360,360,360,360])*)
(***************************************************************************)
C6_DivideResult ==
  Divided =>
    /\ res.ok =>
         LET flat == flattenNested(outer.shape)
             flatStride == flattenNested(outer.stride)
         IN /\ flattenNested(res.shape) = ExpectedDividedShape(flat, num)
            /\ flattenNested(res.stride) = ExpectedDividedStride(flat, flatStride, num)
            /\ num = 1 => Layout(res.shape, res.stride) = outer
    /\ (outer = FlatLayout(<<6, 2>>, <<1, 6>>) /\ num = 2) =>
         res.ok /\ Layout(res.shape, res.stride) = FlatLayout(<<3, 2>>, <<2, 6>>)
    /\ (outer = DocOuter /\ num = 72) =>
         /\ res.ok
         /\ Layout(res.shape, res.stride)
              = FlatLayout(<<1, 1, 1, 4>>, <<360, 360, 360, 360>>)

C6_Witness ==
  /\ Divided
  /\ outer = DocOuter
  /\ num = 72
  /\ res.ok

(***************************************************************************)
(* C7: for a divisor >= 1, divideLayout ends in a divisibility error if    *)
(* and only if some mode is met with remaining <= s and s % remaining # 0, *)
(* or with remaining > s and remaining % s # 0, or the modes are exhausted *)
(* while remaining # 1.                                                    *)
(***************************************************************************)
C7_DivideFailsIff ==
  (Divided /\ num >= 1) =>
    (~res.ok <=> DivisibilityViolated(flattenNested(outer.shape), num))

\* every mode is consumed and a divisor of 2 is left over
C7_Witness ==
  /\ Divided
  /\ ~res.ok
  /\ Len(flattenNested(outer.shape)) >= 2
  /\ num = 2 * countElements(outer.shape)
  /\ \A i \in 1..Len(flattenNested(outer.shape)) : flattenNested(outer.shape)[i] = 2

(***************************************************************************)
(* C8: whenever divideLayout returns, the result shape has the tree shape  *)
(* of the input shape and the result stride that of the input stride, and  *)
(* flattened leaf i of the result sits where flattened leaf i of the input *)
(* sits.                                                                   *)
(***************************************************************************)
C8_DividePreservesNesting ==
  (Divided /\ res.ok) =>
    LET r == divideRecursive(flattenNested(outer.shape), flattenNested(outer.stride), num)
    IN /\ SameStructure(res.shape, outer.shape)
       /\ SameStructure(res.stride, outer.stride)
       /\ flattenNested(res.shape) = r.shapes
       /\ flattenNested(res.stride) = r.strides

\* a nested input whose inner node is reached by the division
C8_Witness ==
  /\ Divided
  /\ res.ok
  /\ IsNode(outer.shape)
  /\ Len(outer.shape.kids) = 2
  /\ IsLeaf(outer.shape.kids[1])
  /\ IsNode(outer.shape.kids[2])
  /\ num > outer.shape.kids[1].v
  /\ res.shape # outer.shape

(***************************************************************************)
(* The walk of modShape in closed form: the remaining count on arrival at  *)
(* mode i, while every earlier mode was kept whole, is floor(m / product   *)
(* of the earlier modes).                                                  *)
(***************************************************************************)
KeptWhole(flat, m, i) == \A j \in 1..i : m \div ProductBefore(flat, j) >= flat[j]

ExpectedModShape(flat, m) ==
  [i \in 1..Len(flat) |->
     IF KeptWhole(flat, m, i) THEN flat[i]
     ELSE IF KeptWhole(flat, m, i - 1) /\ m \div ProductBefore(flat, i) > 0
     THEN m \div ProductBefore(flat, i)
     ELSE 1]

(***************************************************************************)
(* C9: a mode s met with r >= s is kept and r becomes floor(r / s); a mode *)
(* met with 0 < r < s is replaced by r, after which every later mode is 1; *)
(* a mode met with r <= 0 becomes 1.  modShape(6,2) = 2,                   *)
(* modShape([6,2],6) = [6,1], modShape([3,6,2,8],6) = [3,2,1,1].           *)
(***************************************************************************)
C9_ModResult ==
  Modded =>
    /\ res.ok
    /\ flattenNested(res.shape) = ExpectedModShape(flattenNested(outer.shape), num)
    /\ (outer.shape = Leaf(6) /\ num = 2) => res.shape = Leaf(2)
    /\ (outer.shape = FlatValue(<<6, 2>>) /\ num = 6) => res.shape = FlatValue(<<6, 1>>)
    /\ (outer.shape = FlatValue(<<3, 6, 2, 8>>) /\ num = 6) =>
         res.shape = FlatValue(<<3, 2, 1, 1>>)

C9_Witness ==
  /\ Modded
  /\ outer.shape = FlatValue(<<3, 6, 2, 8>>)
  /\ num = 6
  /\ res.shape = FlatValue(<<3, 2, 1, 1>>)

(***************************************************************************)
(* C10: modShape returns a shape for every shape with positive leaves and  *)
(* every integer modulus, and the shape returned has the tree shape of the *)
(* input.                                                                  *)
(***************************************************************************)
C10_ModTotal ==
  Modded => res.ok /\ SameStructure(res.shape, outer.shape)

\* a nested shape and a modulus that does not divide its size
C10_Witness ==
  /\ Modded
  /\ IsNode(outer.shape)
  /\ \E i \in 1..Len(outer.shape.kids) : IsNode(outer.shape.kids[i])
  /\ num > 1
  /\ countElements(outer.shape) % num # 0
  /\ res.ok

(***************************************************************************)
(* C11: for every shape with positive leaves and every modulus m with      *)
(* 1 <= m <= countElements(shape), countElements(modShape(shape, m)) = m.  *)
(***************************************************************************)
C11_ModKeepsModulusElements ==
  (Modded /\ 1 <= num /\ num <= countElements(outer.shape)) =>
    res.ok /\ countElements(res.shape) = num

(***************************************************************************)
(* C12: coalesceLayout returns a leaf shape unchanged; of a node shape it  *)
(* removes the maximal run of top-level modes equal to 1 at the end of the *)
(* mode list, with the strides at the same positions, and nothing else;    *)
(* zero remaining modes give (1, 0), one gives that mode unwrapped, two or *)
(* more remain a node.  ([3,1],[8,2]) -> (3,8); ([2,2],[24,2]) unchanged.  *)
(***************************************************************************)
\* the last top-level mode that is not the number 1 (0 when there is none)
LastNonUnit(modes) ==
  LET keep == {i \in 1..Len(modes) : modes[i] # Leaf(1)}
  IN IF keep = {} THEN 0 ELSE CHOOSE k \in keep : \A j \in keep : j <= k

C12_CoalesceRules ==
  Coalesced =>
    /\ IsLeaf(outer.shape) => Layout(res.shape, res.stride) = outer
    /\ IsNode(outer.shape) =>
         LET t == LastNonUnit(outer.shape.kids)
         IN /\ t = 0 => Layout(res.shape, res.stride) = Layout(Leaf(1), Leaf(0))
            /\ t = 1 => Layout(res.shape, res.stride)
                          = Layout(outer.shape.kids[1], outer.stride.kids[1])
            /\ t >= 2 => Layout(res.shape, res.stride)
                           = Layout(Node(SubSeq(outer.shape.kids, 1, t)),
                                    Node(SubSeq(outer.stride.kids, 1, t)))
    /\ outer = FlatLayout(<<3, 1>>, <<8, 2>>) =>
         Layout(res.shape, res.stride) = Layout(Leaf(3), Leaf(8))
    /\ outer = FlatLayout(<<2, 2>>, <<24, 2>>) => Layout(res.shape, res.stride) = outer

\* a mode of size 1 that is not trailing is kept, the trailing one is removed
C12_Witness ==
  /\ Coalesced
  /\ IsNode(outer.shape)
  /\ Len(outer.shape.kids) = 3
  /\ outer.shape.kids[1] = Leaf(1)
  /\ outer.shape.kids[2] # Leaf(1)
  /\ outer.shape.kids[3] = Leaf(1)
  /\ res.shape = Node(<<Leaf(1), outer.shape.kids[2]>>)

(***************************************************************************)
(* C13: for every shape with positive leaves and flattened leaves          *)
(* s_0..s_{n-1}, the i-th element (0-based) of generateCoordinates(shape,  *)
(* true) is the list of mixed-radix digits of i, the first leaf varying    *)
(* fastest: c_0 = i mod s_0, c_1 = (i div s_0) mod s_1, ...; shape [2,3]   *)
(* gives [[0,0],[1,0],[0,1],[1,1],[0,2],[1,2]].                            *)
(***************************************************************************)
\* the mixed-radix digits of i over the radices, first radix fastest
MixedRadix(i, radices) ==
  [j \in 1..Len(radices) |-> (i \div ProductBefore(radices, j)) % radices[j]]

C13_ColumnMajor ==
  (Generated /\ res.flat) =>
    /\ \A i \in 1..Len(res.coords) :
         res.coords[i] = FlatValue(MixedRadix(i - 1, flattenNested(outer.shape)))
    /\ outer.shape = FlatValue(<<2, 3>>) =>
         res.coords = <<FlatValue(<<0, 0>>), FlatValue(<<1, 0>>), FlatValue(<<0, 1>>),
                        FlatValue(<<1, 1>>), FlatValue(<<0, 2>>), FlatValue(<<1, 2>>)>>

\* a nested shape of three different leaves, enumerated to its last coordinate
C13_Witness ==
  /\ Generated /\ res.flat
  /\ outer.shape = Node(<<FlatValue(<<2, 3>>), Leaf(2)>>)
  /\ Len(res.coords) = 12
  /\ res.coords[4] = FlatValue(<<1, 1, 0>>)
  /\ res.coords[12] = FlatValue(<<1, 2, 1>>)

(***************************************************************************)
(* C14: for every valid shape (positive leaves, no empty node) the number  *)
(* of coordinates returned by generateCoordinates(shape) equals            *)
(* countElements(shape), the product of all leaves.                        *)
(***************************************************************************)
C14_CountConsistency ==
  Generated =>
    /\ Len(res.coords) = countElements(outer.shape)
    /\ Len(res.coords) = ProductBefore(flattenNested(outer.shape),
                                       Len(flattenNested(outer.shape)) + 1)

C14_Witness ==
  /\ Generated /\ ~res.flat
  /\ IsNode(outer.shape)
  /\ Len(flattenNested(outer.shape)) = 3
  /\ Len(res.coords) = 18

(***************************************************************************)
(* C15: with flat = false, every coordinate generateCoordinates produces   *)
(* for a shape has exactly the tree shape of the shape itself, also for    *)
(* shapes whose first or middle mode is a nested node and for shapes with  *)
(* single-element nodes.                                                   *)
(***************************************************************************)
C15_CoordinatesMirrorShape ==
  (Generated /\ ~res.flat) =>
    \A i \in 1..Len(res.coords) : SameStructure(res.coords[i], outer.shape)

(***************************************************************************)
(* C16: whenever flatten(coord) and flatten(stride) have the same length   *)
(* n, calculateOffset(coord, stride) is the sum over i < n of              *)
(* flatCoord[i] * flatStride[i], however coord and stride are nested;      *)
(* ([1,2],[1,4]) -> 9 and ([5,[2,3]],[59,[13,1]]) -> 324.                  *)
(***************************************************************************)
\* sum of the products of the first n leaves
RECURSIVE SumOfProducts(_, _, _)
SumOfProducts(cs, ds, n) ==
  IF n = 0 THEN 0 ELSE SumOfProducts(cs, ds, n - 1) + cs[n] * ds[n]

SameDimension == Len(flattenNested(inner.shape)) = Len(flattenNested(outer.stride))

C16_DotProduct ==
  (OffsetCalculated /\ SameDimension) =>
    /\ res.ok
    /\ res.offset = SumOfProducts(flattenNested(inner.shape), flattenNested(outer.stride),
                                  Len(flattenNested(inner.shape)))
    /\ (inner.shape = FlatValue(<<1, 2>>) /\ outer.stride = FlatValue(<<1, 4>>))
         => res.offset = 9
    /\ (/\ inner.shape = Node(<<Leaf(5), FlatValue(<<2, 3>>)>>)
        /\ outer.stride = Node(<<Leaf(59), FlatValue(<<13, 1>>)>>))
         => res.offset = 324

\* coordinate and stride nested differently, three leaves each, no zero term
C16_Witness ==
  /\ OffsetCalculated
  /\ inner.shape = Node(<<FlatValue(<<1, 2>>), Leaf(2)>>)
  /\ outer.stride = Node(<<Leaf(2), FlatValue(<<1, 2>>)>>)
  /\ res.ok
  /\ res.offset = 8

(***************************************************************************)
(* C17: calculateOffset fails with a dimension-mismatch error if and only  *)
(* if the flattened coordinate and the flattened stride differ in length;  *)
(* there is no other check: a coordinate outside any shape's bounds, a     *)
(* negative one included, gives the plain arithmetic result.               *)
(***************************************************************************)
C17_OnlyDimensionChecked ==
  OffsetCalculated =>
    /\ ~res.ok <=> ~SameDimension
    /\ res.ok =>
         res.offset = SumOfProducts(flattenNested(inner.shape), flattenNested(outer.stride),
                                    Len(flattenNested(inner.shape)))

\* a negative coordinate is accepted and gives a negative offset
C17_Witness ==
  /\ OffsetCalculated
  /\ inner.shape = FlatValue(<<0 - 1, 2>>)
  /\ outer.stride = FlatValue(<<2, 0>>)
  /\ res.ok
  /\ res.offset = 0 - 2

(***************************************************************************)
(* C18: offsetToCoordinate(offset, shape) takes repeated mod/div against   *)
(* the flattened shape leaves, first leaf first, and returns the digits    *)
(* reassembled into the nesting of the shape: the result has the tree      *)
(* shape of shape for every nested shape.                                  *)
(***************************************************************************)
C18_OffsetToCoordinateNested ==
  OffsetConverted =>
    /\ flattenCoord(res.coord) = MixedRadix(num, flattenNested(outer.shape))
    /\ SameStructure(res.coord, outer.shape)

(***************************************************************************)
(* C19: new Layout(shape, stride) / validateLayout(shape, stride) succeeds *)
(* if and only if shape and stride have identical tree shape, leaf against *)
(* leaf and equal lengths at every node of every depth; otherwise it       *)
(* throws and no Layout object exists; shape [4,8] with stride 1 is        *)
(* rejected.                                                               *)
(***************************************************************************)
C19_ConstructionValidates ==
  Constructed =>
    /\ res.ok <=> SameStructure(outer.shape, outer.stride)
    /\ res.ok => Layout(res.shape, res.stride) = outer
    /\ ~res.ok => res = Err
    /\ outer = Layout(FlatValue(<<4, 8>>), Leaf(1)) => ~res.ok

\* rejected for a mismatch below the top level only
C19_Witness ==
  /\ Constructed
  /\ ~res.ok
  /\ IsNode(outer.shape) /\ IsNode(outer.stride)
  /\ Len(outer.shape.kids) = Len(outer.stride.kids)

(***************************************************************************)
(* C20: divideLayout, coalesceLayout and composition, given a (shape,      *)
(* stride) pair, outer or inner, whose trees differ in nesting or in       *)
(* length at some position, end in an error and never return a result.     *)
(***************************************************************************)
MismatchedCall ==
  /\ pc = "done"
  /\ \/ op \in {"divideLayout", "coalesceLayout"} /\ ~ValidOuter
     \/ op = "composition" /\ (~ValidOuter \/ ~ValidInner)

C20_MismatchFailsFast == MismatchedCall => ~res.ok


TwoModes(l) ==
  /\ IsNode(l.shape) /\ Len(l.shape.kids) = 2
  /\ IsNode(l.stride) /\ Len(l.stride.kids) = 2

Mode(l, m) == Layout(l.shape.kids[m], l.stride.kids[m])

PositiveLeaves(shape) == \A i \in 1..Len(flattenNested(shape)) : flattenNested(shape)[i] > 0

FlatAt(flat, flatStride, i) == SumOfProducts(MixedRadix(i, flat), flatStride, Len(flat))

LayoutAt(layout, i) == FlatAt(flattenNested(layout.shape), flattenNested(layout.stride), i)

C23_DivisionSemantics ==
  (Divided /\ num >= 1 /\ res.ok) =>
    LET coords == generateCoordinates(res.shape, FALSE)
        flat == flattenNested(outer.shape)
        flatStride == flattenNested(outer.stride)
        resShape == flattenNested(res.shape)
        resStride == flattenNested(res.stride)
    IN \A i \in 0..(countElements(res.shape) - 1) :
         /\ FlatAt(resShape, resStride, i) = FlatAt(flat, flatStride, num * i)
         /\ calculateOffset(coords[i + 1], res.stride).offset
              = FlatAt(flat, flatStride, num * i)

\* the divisor consumes the first mode and part of the second; the last element
\* of the quotient lies in the last stretch of the dividend
C23_Witness ==
  /\ Divided /\ res.ok
  /\ outer = FlatLayout(<<2, 3, 2>>, <<1, 2, 2>>)
  /\ num = 6
  /\ countElements(res.shape) = 2
  /\ LayoutAt(Layout(res.shape, res.stride), 1) = 2
  /\ LayoutAt(outer, 6) = 2

(***************************************************************************)
(* C24: for every valid layout with positive shape leaves and divisor      *)
(* d >= 1, whenever divideLayout returns D, countElements(D.shape) * d =   *)
(* countElements(shape) and every leaf of D.shape is a positive integer.   *)
(***************************************************************************)
C24_DivisionSize ==
  (Divided /\ num >= 1 /\ res.ok) =>
    /\ countElements(res.shape) * num = countElements(outer.shape)
    /\ PositiveLeaves(res.shape)
    /\ countElements(outer.shape) % num = 0

C24_Witness ==
  /\ Divided /\ res.ok
  /\ num = 4
  /\ countElements(outer.shape) = 12
  /\ countElements(res.shape) = 3

(***************************************************************************)
(* C25: for every valid layout with positive shape leaves the coalesced    *)
(* layout has the same countElements as the original, and for every i its  *)
(* offset at the i-th column-major coordinate equals the original's.       *)
(***************************************************************************)
C25_CoalescePreservesFunction ==
  Coalesced =>
    /\ countElements(res.shape) = countElements(outer.shape)
    /\ LET coords == generateCoordinates(res.shape, FALSE)
           flat == flattenNested(outer.shape)
           flatStride == flattenNested(outer.stride)
           resShape == flattenNested(res.shape)
           resStride == flattenNested(res.stride)
       IN \A i \in 0..(countElements(outer.shape) - 1) :
            /\ FlatAt(resShape, resStride, i) = FlatAt(flat, flatStride, i)
            /\ calculateOffset(coords[i + 1], res.stride).offset
                 = FlatAt(flat, flatStride, i)

\* a trailing mode of size 1 with a stride of its own has been removed
C25_Witness ==
  /\ Coalesced
  /\ outer = FlatLayout(<<2, 3, 1>>, <<2, 1, 2>>)
  /\ Layout(res.shape, res.stride) = FlatLayout(<<2, 3>>, <<2, 1>>)

(***************************************************************************)
(* C26: for every shape with positive leaves s_i and every modulus m >= 1, *)
(* each leaf r_i of modShape(shape, m) satisfies 1 <= r_i <= s_i, the      *)
(* result has at most m elements, and it is the input shape whenever       *)
(* m >= countElements(shape).                                              *)
(***************************************************************************)
C26_ModBounds ==
  (Modded /\ num >= 1) =>
    /\ res.ok
    /\ SameStructure(res.shape, outer.shape)
    /\ \A i \in 1..Len(flattenNested(outer.shape)) :
         /\ 1 <= flattenNested(res.shape)[i]
         /\ flattenNested(res.shape)[i] <= flattenNested(outer.shape)[i]
    /\ countElements(res.shape) <= num
    /\ num >= countElements(outer.shape) => res.shape = outer.shape

\* a modulus inside the shape that no prefix of modes divides
C26_Witness ==
  /\ Modded
  /\ outer.shape = FlatValue(<<2, 3, 2>>)
  /\ num = 5
  /\ res.shape = FlatValue(<<2, 2, 1>>)

(***************************************************************************)
(* C27: for every valid shape and every i in [0, countElements(shape)) the *)
(* flattened leaves of offsetToCoordinate(i, shape) are the i-th element   *)
(* of generateCoordinates(shape, true), and every leaf of the result lies  *)
(* in [0, corresponding shape leaf).                                       *)
(***************************************************************************)
C27_OffsetToCoordinateInverse ==
  (OffsetConverted /\ num < countElements(outer.shape)) =>
    /\ FlatValue(flattenCoord(res.coord)) = generateCoordinates(outer.shape, TRUE)[num + 1]
    /\ Len(flattenCoord(res.coord)) = Len(flattenNested(outer.shape))
    /\ \A j \in 1..Len(flattenNested(outer.shape)) :
         /\ 0 <= flattenCoord(res.coord)[j]
         /\ flattenCoord(res.coord)[j] < flattenNested(outer.shape)[j]

\* the last index of a nested shape with three different digits
C27_Witness ==
  /\ OffsetConverted
  /\ outer.shape = Node(<<Leaf(2), FlatValue(<<3, 2>>)>>)
  /\ num = 9
  /\ flattenCoord(res.coord) = <<1, 1, 1>>


(***************************************************************************)
(* C28: for any number and interleaving of initPyodide() calls, calls made *)
(* while a first initialization is in progress included, the runtime is    *)
(* loaded at most once, every call that resolves yields the same instance, *)
(* and getPyodide() throws exactly in the states where no initialization   *)
(* has completed successfully, where isPyodideReady() is false.            *)
(***************************************************************************)
C28_InitSingleton ==
  /\ loadCount <= 1
  /\ \A c \in Callers :
       calls[c].state = "resolved" => (calls[c].value # 0 /\ calls[c].value = pyodideInstance)
  /\ \A c, d \in Callers :
       (calls[c].state = "resolved" /\ calls[d].state = "resolved")
         => calls[c].value = calls[d].value
  /\ getPyodide.ok <=> isPyodideReady
  /\ isPyodideReady <=> initStep = "end"
  /\ isPyodideReady <=> initializationPromise.state = "fulfilled"

\* a call that started the initialization and one made while it was in
\* progress have both resolved, to the one runtime that was loaded
C28_Witness ==
  /\ calls[1].kind = "initPyodide" /\ calls[1].saw = "null"
  /\ calls[2].kind = "initPyodide" /\ calls[2].saw = "pending"
  /\ calls[1].state = "resolved" /\ calls[2].state = "resolved"
  /\ calls[1].value = 1 /\ calls[2].value = 1
  /\ loadCount = 1
  /\ getPyodide.ok

(***************************************************************************)
(* C29: if the first initialization attempt fails (loading the runtime,    *)
(* fetching a Python file or importing the package), the stored promise is *)
(* never cleared: every later initPyodide() call and every bridge function *)
(* call fails with that same error, no new load is attempted, and          *)
(* isPyodideReady() stays false forever.                                   *)
(***************************************************************************)
InitFailed == initStep = "failed"

C29_WhileFailed ==
  InitFailed =>
    /\ initializationPromise.state = "rejected"
    /\ initializationPromise.error \in {"import", "load", "fetch", "verify"}
    /\ ~isPyodideReady
    /\ ~getPyodide.ok
    /\ loadCount <= 1
    /\ \A c \in Callers :
         calls[c].state \in {"resolved", "rejected"}
           => (calls[c].state = "rejected" /\ calls[c].error = initializationPromise.error)

C29_StaysFailed ==
  InitFailed =>
    /\ InitFailed'
    /\ initializationPromise' = initializationPromise
    /\ loadCount' = loadCount
    /\ pyodideInstance' = pyodideInstance

C29_FailurePermanent == [](C29_WhileFailed) /\ [][C29_StaysFailed]_allVars

\* a bridge call made after a fetch had failed has been rejected with the
\* error of the fetch; the runtime was loaded once and is not loaded again
C29_Witness ==
  /\ InitFailed
  /\ initializationPromise.error = "fetch"
  /\ calls[1].saw = "null" /\ calls[1].state = "rejected" /\ calls[1].error = "fetch"
  /\ calls[2].kind = "composition" /\ calls[2].saw = "rejected"
  /\ calls[2].state = "rejected" /\ calls[2].error = "fetch"
  /\ loadCount = 1


(***************************************************************************)
(* C30: when the inputs change while an earlier calculateLayouts run is    *)
(* still pending, then once all runs have finished the displayed layoutA,  *)
(* layoutB, layoutResult, layoutBCoords and error are those computed from  *)
(* the most recent inputs: nothing of an older input overwrites them.      *)
(***************************************************************************)
AllRunsFinished == runsStarted > 0 /\ queue = <<>> /\ waiting = <<>>

C30_LatestInputShown ==
  AllRunsFinished =>
    IF initializationPromise.state = "rejected"
    THEN shown = "none" /\ error = "init"
    ELSE IF RunOf(layoutInput).fails
    THEN shown = "none" /\ error = layoutInput
    ELSE shown = layoutInput /\ error = ""

=============================================================================
